---- MODULE Spec2Model ----
(***************************************************************************)
(* noter (src/main.rs): a command line helper that resolves a course       *)
(* directory under the current working directory and creates dated note    *)
(* files ("new") or course folders ("course") in it.                       *)
(*                                                                         *)
(* Strings are sequences of one-character strings.  The working directory  *)
(* is a function from entry names to entries; a directory entry carries    *)
(* the function from the names of its files to their contents.  Filesystem *)
(* calls never fail in this model, so the IoError paths of the `?`         *)
(* operators are not taken, and names contain no path separator.           *)
(***************************************************************************)
EXTENDS Integers, Sequences, FiniteSets, TLC

VARIABLES root, today, created, last, pure, race

vars == <<root, today, created, last, pure, race>>

---------------------------------------------------------------------------
(* Bounds of the model *)

\* longest input string of the pure-function specifications
MaxLen == 3
\* most entries of the working directory
MaxEntries == 2
\* most note files of one course directory
MaxFiles == 1

---------------------------------------------------------------------------
(* Strings *)

Strings(chars, n) == UNION {[1..k -> chars] : k \in 0..n}

UpperLetters ==
  {"A","B","C","D","E","F","G","H","I","J","K","L","M",
   "N","O","P","Q","R","S","T","U","V","W","X","Y","Z"}

LowerLetters ==
  {"a","b","c","d","e","f","g","h","i","j","k","l","m",
   "n","o","p","q","r","s","t","u","v","w","x","y","z"}

Digits == {"0","1","2","3","4","5","6","7","8","9"}

\* the characters \s matches, among those of the model
Whitespace == {" ", "\t", "\n"}

UpperOf ==
  [c \in LowerLetters |->
     CASE c = "a" -> "A" [] c = "b" -> "B" [] c = "c" -> "C" [] c = "d" -> "D"
       [] c = "e" -> "E" [] c = "f" -> "F" [] c = "g" -> "G" [] c = "h" -> "H"
       [] c = "i" -> "I" [] c = "j" -> "J" [] c = "k" -> "K" [] c = "l" -> "L"
       [] c = "m" -> "M" [] c = "n" -> "N" [] c = "o" -> "O" [] c = "p" -> "P"
       [] c = "q" -> "Q" [] c = "r" -> "R" [] c = "s" -> "S" [] c = "t" -> "T"
       [] c = "u" -> "U" [] c = "v" -> "V" [] c = "w" -> "W" [] c = "x" -> "X"
       [] c = "y" -> "Y" [] c = "z" -> "Z"]

\* str::to_uppercase on the characters of the model
to_uppercase(s) ==
  [i \in 1..Len(s) |-> IF s[i] \in LowerLetters THEN UpperOf[s[i]] ELSE s[i]]

---------------------------------------------------------------------------
(* Sanitizer *)

\* is_invalid_for_path with the path separator left out of the match arms
is_invalid_for_path_Mut(c) ==
  c \in {"\"", "<", ">", "|", "NUL", ":", "*", "?", "\\"}

\* the character NUL is written "NUL"
is_invalid_for_path(c) ==
  c \in {"\"", "<", ">", "|", "NUL", ":", "*", "?", "\\", "/"}

\* str::replace(pattern, "_"): every matching character becomes one "_"
replace_invalid(path) ==
  [i \in 1..Len(path) |-> IF is_invalid_for_path(path[i]) THEN "_" ELSE path[i]]

RECURSIVE trim_end_matches(_, _)
trim_end_matches(s, c) ==
  IF s # <<>> /\ s[Len(s)] = c
    THEN trim_end_matches(SubSeq(s, 1, Len(s) - 1), c)
    ELSE s

sanitize_file_name(path) == trim_end_matches(replace_invalid(path), ".")

---------------------------------------------------------------------------
(* Validator: Regex [A-Z]+[0-9]+, unanchored is_match.  The automaton of  *)
(* the search: 0 = outside a letter run, 1 = inside one, 2 = matched.      *)

ValidateStep(q, c) ==
  IF q = 2 THEN 2
  ELSE IF q = 1 /\ c \in Digits THEN 2
  ELSE IF c \in UpperLetters THEN 1
  ELSE 0

RECURSIVE ValidateRun(_, _, _)
ValidateRun(code, i, q) ==
  IF i > Len(code) THEN q
  ELSE ValidateRun(code, i + 1, ValidateStep(q, code[i]))

\* validate_course with the pattern anchored: ^[A-Z]+[0-9]+
validate_course_Mut(code) ==
  \E b \in 1..Len(code) :
     /\ \A t \in 1..b : code[t] \in UpperLetters
     /\ b + 1 <= Len(code) /\ code[b + 1] \in Digits

validate_course(code) == ValidateRun(code, 1, 0) = 2

---------------------------------------------------------------------------
(* Resolver pattern: Regex::new(format!(r"^({})\s.+", course)).  The code  *)
(* is interpolated as pattern text: "." is any character but a newline,    *)
(* "+" repeats the item before it, every other character of the model's    *)
(* alphabet is a literal.  A "+" with no item before it does not compile.  *)

RECURSIVE ParseItems(_, _, _)
ParseItems(course, i, acc) ==
  IF i > Len(course) THEN [ok |-> TRUE, items |-> acc]
  ELSE IF course[i] = "+"
    THEN IF acc = <<>>
           THEN [ok |-> FALSE, items |-> <<>>]
           ELSE ParseItems(course, i + 1, [acc EXCEPT ![Len(acc)].plus = TRUE])
    ELSE ParseItems(course, i + 1,
                    Append(acc, [atom |-> course[i], plus |-> FALSE]))

Regex_new(course) == ParseItems(course, 1, <<>>)

AtomMatches(atom, c) == IF atom = "." THEN c # "\n" ELSE c = atom

\* the positions after a match of items[k..] that starts at position pos of s
RECURSIVE MatchEnds(_, _, _, _)
MatchEnds(items, k, s, pos) ==
  IF k > Len(items) THEN {pos}
  ELSE LET runs == {n \in 1..(Len(s) - pos + 1) :
                      \A j \in 0..(n - 1) : AtomMatches(items[k].atom, s[pos + j])}
           lens == IF items[k].plus THEN runs ELSE runs \cap {1}
       IN  UNION {MatchEnds(items, k + 1, s, pos + n) : n \in lens}

\* ^(items)\s.+ : the items from the start, one whitespace, one more character
is_match(re, name) ==
  \E e \in MatchEnds(re.items, 1, name, 1) :
     /\ e + 1 <= Len(name)
     /\ name[e] \in Whitespace
     /\ name[e + 1] # "\n"

---------------------------------------------------------------------------
(* Results: Result<_, NoterError> and the status line printed *)

NoStr == <<>>

Ok(path) == [kind |-> "Ok", payload |-> path]
RegexError == [kind |-> "RegexError", payload |-> NoStr]
IoError == [kind |-> "IoError", payload |-> NoStr]
CourseNotFoundError(course) == [kind |-> "CourseNotFoundError", payload |-> course]
BadCourseCodeError(course) == [kind |-> "BadCourseCodeError", payload |-> course]

None == [some |-> FALSE, val |-> NoStr]
Some(t) == [some |-> TRUE, val |-> t]

---------------------------------------------------------------------------
(* Resolver *)

\* the loop over fs::read_dir(root): listing is the sequence it yields
RECURSIVE ScanEntries(_, _, _)
ScanEntries(listing, i, re) ==
  IF i > Len(listing) THEN NoStr
  ELSE IF listing[i].kind # "dir" THEN ScanEntries(listing, i + 1, re)
  ELSE IF is_match(re, listing[i].name) THEN <<listing[i].name>>
  ELSE ScanEntries(listing, i + 1, re)

\* scanned: whether fs::read_dir was reached
find_course_path(listing, course) ==
  LET re == Regex_new(course) IN
  IF ~re.ok THEN [result |-> RegexError, scanned |-> FALSE]
  ELSE LET hit == ScanEntries(listing, 1, re) IN
       [result |-> IF hit # NoStr THEN Ok(hit[1]) ELSE CourseNotFoundError(course),
        scanned |-> TRUE]

---------------------------------------------------------------------------
(* Filesystem *)

NoFiles == <<>>
DirEntry(files) == [kind |-> "dir", files |-> files]
FileEntry == [kind |-> "file", files |-> NoFiles]

\* Path::exists that never sees the entry
path_exists_Mut(entries, name) == FALSE

\* Path::exists on root/name
path_exists(entries, name) == name \in DOMAIN entries

\* fs::create_dir: fails when the path exists
create_dir(rootv, name) ==
  IF name \in DOMAIN rootv
    THEN [ok |-> FALSE, root |-> rootv]
    ELSE [ok |-> TRUE, root |-> rootv @@ (name :> DirEntry(NoFiles))]

\* fs::File::create: creates the file empty, or truncates the one there
File_create(files, name) == (name :> 0) @@ files

\* the orders fs::read_dir may yield the entries in
Listings(rootv) ==
  LET names == DOMAIN rootv
      n == Cardinality(names)
  IN  {[i \in 1..n |-> [name |-> f[i], kind |-> rootv[f[i]].kind]] :
         f \in {g \in [1..n -> names] : \A i, j \in 1..n : g[i] = g[j] => i = j}}

---------------------------------------------------------------------------
(* Creators *)

FolderName(course_code, title) ==
  course_code \o <<" ">> \o sanitize_file_name(title)

\* make_new_folder without the path.exists() test
make_new_folder_Mut(rootv, course_code, title) ==
  LET made == create_dir(rootv, FolderName(course_code, title)) IN
  IF made.ok
    THEN [root |-> made.root, result |-> Ok(NoStr), out |-> "Created"]
    ELSE [root |-> rootv, result |-> IoError, out |-> "None"]

make_new_folder(rootv, course_code, title) ==
  LET path == FolderName(course_code, title) IN
  IF ~path_exists(rootv, path)
    THEN LET made == create_dir(rootv, path) IN
         IF made.ok
           THEN [root |-> made.root, result |-> Ok(NoStr), out |-> "Created"]
           ELSE [root |-> rootv, result |-> IoError, out |-> "None"]
    ELSE [root |-> rootv, result |-> Ok(NoStr), out |-> "AlreadyExisted"]

Digit == [d \in 0..9 |-> CASE d = 0 -> "0" [] d = 1 -> "1" [] d = 2 -> "2"
                           [] d = 3 -> "3" [] d = 4 -> "4" [] d = 5 -> "5"
                           [] d = 6 -> "6" [] d = 7 -> "7" [] d = 8 -> "8"
                           [] d = 9 -> "9"]

\* Local::today().format("%F") on day `day` of March 2024
FormatDate(day) ==
  <<"2","0","2","4","-","0","3","-", Digit[(day \div 10) % 10], Digit[day % 10]>>

NoteName(day, title) ==
  IF title.some
    THEN FormatDate(day) \o <<"-">> \o sanitize_file_name(title.val) \o <<".","m","d">>
    ELSE FormatDate(day) \o <<".","m","d">>

\* make_new_note without the path.exists() test
make_new_note_Mut(rootv, dir, day, title) ==
  [root |-> [rootv EXCEPT ![dir].files = File_create(@, NoteName(day, title))],
   result |-> Ok(NoStr), out |-> "Created"]

\* dir is the name of the course directory `path` points at
make_new_note(rootv, dir, day, title) ==
  LET new_file == NoteName(day, title) IN
  IF path_exists(rootv[dir].files, new_file)
    THEN [root |-> rootv, result |-> Ok(NoStr), out |-> "AlreadyExisted"]
    ELSE [root |-> [rootv EXCEPT ![dir].files = File_create(@, new_file)],
          result |-> Ok(NoStr), out |-> "Created"]

---------------------------------------------------------------------------
(* Dispatcher: run() *)

NoTarget == <<>>

\* the "new" arm with the course resolved before the code is validated
run_new_Mut(rootv, listing, day, raw, title) ==
  LET course_code == to_uppercase(raw)
      found == find_course_path(listing, course_code)
  IN  IF ~validate_course(course_code)
        THEN [root |-> rootv, result |-> BadCourseCodeError(course_code),
              out |-> "None", scanned |-> found.scanned, target |-> NoTarget]
      ELSE IF found.result.kind # "Ok"
        THEN [root |-> rootv, result |-> found.result, out |-> "None",
              scanned |-> found.scanned, target |-> NoTarget]
      ELSE LET made == make_new_note(rootv, found.result.payload, day, title) IN
           [root |-> made.root, result |-> made.result, out |-> made.out,
            scanned |-> found.scanned,
            target |-> <<found.result.payload, title, day>>]

\* the "new" arm
run_new(rootv, listing, day, raw, title) ==
  LET course_code == to_uppercase(raw) IN
  IF ~validate_course(course_code)
    THEN [root |-> rootv, result |-> BadCourseCodeError(course_code),
          out |-> "None", scanned |-> FALSE, target |-> NoTarget]
    ELSE LET found == find_course_path(listing, course_code) IN
         IF found.result.kind # "Ok"
           THEN [root |-> rootv, result |-> found.result, out |-> "None",
                 scanned |-> found.scanned, target |-> NoTarget]
           ELSE LET made == make_new_note(rootv, found.result.payload, day, title) IN
                [root |-> made.root, result |-> made.result, out |-> made.out,
                 scanned |-> found.scanned,
                 target |-> <<found.result.payload, title, day>>]

\* the "course" arm
run_course(rootv, raw, title) ==
  LET course_code == to_uppercase(raw) IN
  IF ~validate_course(course_code)
    THEN [root |-> rootv, result |-> BadCourseCodeError(course_code),
          out |-> "None", scanned |-> FALSE, target |-> NoTarget]
    ELSE LET made == make_new_folder(rootv, course_code, title) IN
         [root |-> made.root, result |-> made.result, out |-> made.out,
          scanned |-> FALSE, target |-> NoTarget]

---------------------------------------------------------------------------
(* Inputs *)

\* raw course codes typed on the command line
RawCodes ==
  { <<"a","1">>, <<"A","1","+">>, <<"+","A","1">>, <<"1","a">> }

\* titles typed on the command line
Titles == { <<"x",":">>, <<".">> }

\* the optional title of "new"
NoteTitles == { None, Some(<<"x",":">>) }

\* the days of March 2024 the clock runs through
Days == {1, 2}

\* what a user may write into a note (a new note holds 0, nothing)
Contents == {1}

\* entries put into the working directory by other programs
EnvEntries ==
  { [name |-> <<"A","1"," ","x","_">>, entry |-> FileEntry] }

---------------------------------------------------------------------------
(* The program: invocations of noter in one working directory *)

PureIdle == [fn |-> "none", arg |-> NoStr, res |-> NoStr, done |-> TRUE]
RaceIdle == [pc |-> <<>>, title |-> <<>>, out |-> <<>>, files |-> NoFiles,
             clobbered |-> <<>>, overlapped |-> FALSE]

\* the record of the latest step: the invocation's arguments, what it returned
\* and printed, the working directory it started from (before), whether its
\* note had been reported Created earlier or its folder by the invocation just
\* before (again), and whether it follows a "course" of the same code that
\* reported Created (afterCourse)
LastEnv(rootv) ==
  [op |-> "env", code |-> NoStr, title |-> None, listing |-> <<>>,
   result |-> Ok(NoStr), out |-> "None", scanned |-> FALSE,
   target |-> NoTarget, before |-> rootv, again |-> FALSE,
   afterCourse |-> FALSE]

WithinBounds(rootv) ==
  /\ Cardinality(DOMAIN rootv) <= MaxEntries
  /\ \A d \in DOMAIN rootv : Cardinality(DOMAIN rootv[d].files) <= MaxFiles

Init ==
  /\ root = <<>>
  /\ today = 1
  /\ created = {}
  /\ last = LastEnv(<<>>)
  /\ pure = PureIdle
  /\ race = RaceIdle

\* noter new <raw> [title]
RunNew(raw, title) ==
  \E listing \in Listings(root) :
  \E r \in {run_new(root, listing, today, raw, title)} :
    /\ WithinBounds(r.root)
    /\ root' = r.root
    /\ created' = IF r.out = "Created" THEN created \cup {r.target} ELSE created
    /\ last' = [op |-> "new", code |-> raw, title |-> title, listing |-> listing,
                result |-> r.result, out |-> r.out, scanned |-> r.scanned,
                target |-> r.target, before |-> root,
                again |-> r.target # NoTarget /\ r.target \in created,
                afterCourse |-> /\ last.op = "course" /\ last.out = "Created"
                                /\ last.code = raw]
    /\ UNCHANGED <<today, pure, race>>

\* noter course <raw> <title>
RunCourse(raw, title) ==
  \E r \in {run_course(root, raw, title)} :
  /\ WithinBounds(r.root)
  /\ root' = r.root
  /\ last' = [op |-> "course", code |-> raw, title |-> Some(title),
              listing |-> <<>>, result |-> r.result, out |-> r.out,
              scanned |-> r.scanned, target |-> NoTarget, before |-> root,
              again |-> /\ last.op = "course" /\ last.out = "Created"
                        /\ last.code = raw /\ last.title = Some(title),
              afterCourse |-> FALSE]
  /\ UNCHANGED <<today, created, pure, race>>

\* another program creates an entry in the working directory
EnvCreate(e) ==
  /\ e.name \notin DOMAIN root
  /\ Cardinality(DOMAIN root) < MaxEntries
  /\ root' = root @@ (e.name :> e.entry)
  /\ last' = LastEnv(root')
  /\ UNCHANGED <<today, created, pure, race>>

\* the user writes content into a note
EnvWrite(d, f, c) ==
  /\ d \in DOMAIN root
  /\ f \in DOMAIN root[d].files
  /\ root[d].files[f] # c
  /\ root' = [root EXCEPT ![d].files[f] = c]
  /\ last' = LastEnv(root')
  /\ UNCHANGED <<today, created, pure, race>>

\* midnight
Tick ==
  /\ today + 1 \in Days
  /\ today' = today + 1
  /\ last' = LastEnv(root)
  /\ UNCHANGED <<root, created, pure, race>>

AllNames == UNION {DOMAIN root[d].files : d \in DOMAIN root}

Next ==
  \/ \E raw \in RawCodes, title \in NoteTitles : RunNew(raw, title)
  \/ \E raw \in RawCodes, title \in Titles : RunCourse(raw, title)
  \/ \E e \in EnvEntries : EnvCreate(e)
  \/ \E d \in DOMAIN root, f \in AllNames, c \in Contents : EnvWrite(d, f, c)
  \/ Tick

Spec == Init /\ [][Next]_vars

---------------------------------------------------------------------------
(* The pure functions on their own: an input is drawn, the function applied *)

SanChars == {"x", ".", ":", "/", "_"}

InitSanitize ==
  /\ pure \in {[fn |-> "sanitize", arg |-> s, res |-> NoStr, done |-> FALSE] :
                 s \in Strings(SanChars, MaxLen)}
  /\ root = <<>> /\ today = 1 /\ created = {}
  /\ last = LastEnv(<<>>) /\ race = RaceIdle

Sanitize ==
  /\ pure.fn = "sanitize" /\ ~pure.done
  /\ pure' = [pure EXCEPT !.res = sanitize_file_name(pure.arg), !.done = TRUE]
  /\ UNCHANGED <<root, today, created, last, race>>

SpecSanitize == InitSanitize /\ [][Sanitize]_vars

ValChars == {"A", "Z", "1", "x", "+"}

InitValidate ==
  /\ pure \in {[fn |-> "validate", arg |-> s, res |-> FALSE, done |-> FALSE] :
                 s \in Strings(ValChars, MaxLen)}
  /\ root = <<>> /\ today = 1 /\ created = {}
  /\ last = LastEnv(<<>>) /\ race = RaceIdle

Validate ==
  /\ pure.fn = "validate" /\ ~pure.done
  /\ pure' = [pure EXCEPT !.res = validate_course(pure.arg), !.done = TRUE]
  /\ UNCHANGED <<root, today, created, last, race>>

SpecValidate == InitValidate /\ [][Validate]_vars

---------------------------------------------------------------------------
(* Two invocations of make_new_note on one course directory whose steps     *)
(* interleave: each checks path.exists(), then calls File::create.          *)

Procs == {1, 2}

RaceName(p) == NoteName(today, race.title[p])

InitRace ==
  /\ today \in Days
  /\ race \in {[pc |-> [p \in Procs |-> "check"], title |-> t,
                out |-> [p \in Procs |-> "None"], files |-> NoFiles,
                clobbered |-> [p \in Procs |-> FALSE], overlapped |-> FALSE] :
                 t \in [Procs -> NoteTitles]}
  /\ root = <<>> /\ created = {}
  /\ last = LastEnv(<<>>) /\ pure = PureIdle

\* path.push(&new_file); if path.exists() { println!(..); return Ok(()) }
RaceCheck(p) ==
  /\ race.pc[p] = "check"
  /\ IF path_exists(race.files, RaceName(p))
       THEN race' = [race EXCEPT !.pc[p] = "done", !.out[p] = "AlreadyExisted"]
       ELSE race' = [race EXCEPT !.pc[p] = "create",
                       !.overlapped = @ \/ \E q \in Procs \ {p} :
                                              /\ race.pc[q] = "create"
                                              /\ RaceName(q) = RaceName(p)]
  /\ UNCHANGED <<root, today, created, last, pure>>

\* fs::File::create(&path)?; println!("Created ..")
RaceCreate(p) ==
  /\ race.pc[p] = "create"
  /\ race' = [race EXCEPT !.pc[p] = "done", !.out[p] = "Created",
                !.clobbered[p] = RaceName(p) \in DOMAIN race.files,
                !.files = File_create(@, RaceName(p))]
  /\ UNCHANGED <<root, today, created, last, pure>>

\* the user writes content into a note
RaceWrite(f, c) ==
  /\ f \in DOMAIN race.files
  /\ race.files[f] # c
  /\ race' = [race EXCEPT !.files[f] = c]
  /\ UNCHANGED <<root, today, created, last, pure>>

NextRace ==
  \/ \E p \in Procs : RaceCheck(p)
  \/ \E p \in Procs : RaceCreate(p)
  \/ \E f \in DOMAIN race.files, c \in Contents : RaceWrite(f, c)

SpecRace == InitRace /\ [][NextRace]_vars

---------------------------------------------------------------------------
(* Properties *)

ReservedChars == {"\"", "<", ">", "|", "NUL", ":", "*", "?", "\\", "/"}

Invoked == last.op \in {"new", "course"}
CourseCode == to_uppercase(last.code)

\* C1: NoteCreator never overwrites.  Once make_new_note has reported Created
\* for a course directory, title and date, and whatever has been written to
\* the file since, a later "new" that reaches the same directory with the same
\* title on the same date reports AlreadyExisted, returns Ok and leaves the
\* working directory, the file's content included, as it found it.
C1_NeverOverwrites ==
  (last.op = "new" /\ last.again) =>
     /\ last.out = "AlreadyExisted"
     /\ last.result = Ok(NoStr)
     /\ root = last.before

\* a repeated "new" met a note that had been written to
C1_Witness ==
  /\ last.op = "new" /\ last.again
  /\ root[last.target[1]].files[NoteName(last.target[3], last.target[2])] \in Contents

C3_ResolverResult ==
  (last.op = "new" /\ last.result.kind # "BadCourseCodeError") =>
     LET re == Regex_new(CourseCode)
         hits == {i \in 1..Len(last.listing) :
                    /\ last.listing[i].kind = "dir"
                    /\ re.ok /\ is_match(re, last.listing[i].name)}
     IN  IF hits = {}
           THEN last.result = CourseNotFoundError(CourseCode)
           ELSE /\ last.target # NoTarget
                /\ \E i \in hits : /\ \A j \in hits : i <= j
                                   /\ last.target[1] = last.listing[i].name

\* C4: every uppercased code that passes validate_course, and so reaches the
\* resolver's pattern or the folder's path, consists of letters and digits only.
C4_CodeIsAlphanumeric ==
  (Invoked /\ last.result.kind # "BadCourseCodeError") =>
     \A i \in 1..Len(CourseCode) :
        CourseCode[i] \in UpperLetters \cup LowerLetters \cup Digits

\* C5: validation precedes resolution and creation.  In "new" and in "course"
\* a code whose uppercased form fails validate_course ends the invocation with
\* BadCourseCodeError carrying the uppercased code, with no directory scan and
\* with the working directory unchanged.
C5_ValidationFirst ==
  (Invoked /\ ~validate_course(CourseCode)) =>
     /\ last.result = BadCourseCodeError(CourseCode)
     /\ last.out = "None"
     /\ ~last.scanned
     /\ root = last.before

\* a "new" with a bad code, in a working directory that holds a course directory
C5_Witness ==
  /\ last.op = "new" /\ last.result.kind = "BadCourseCodeError"
  /\ last.code # CourseCode
  /\ \E d \in DOMAIN root : root[d].kind = "dir"

\* C6: sanitize_file_name's result holds no reserved character: each reserved
\* character of the input is replaced by one underscore, every other character
\* is kept in place, and only trailing periods are dropped.
C6_SanitizerRemovesReserved ==
  (pure.fn = "sanitize" /\ pure.done) =>
     /\ \A i \in 1..Len(pure.res) : pure.res[i] \notin ReservedChars
     /\ Len(pure.res) <= Len(pure.arg)
     /\ \A i \in 1..Len(pure.res) :
          pure.res[i] = IF pure.arg[i] \in ReservedChars THEN "_" ELSE pure.arg[i]
     /\ \A i \in (Len(pure.res) + 1)..Len(pure.arg) : pure.arg[i] = "."

\* an input with a reserved character and a trailing period has been sanitized
C6_Witness ==
  /\ pure.fn = "sanitize" /\ pure.done
  /\ \E i \in 1..Len(pure.res) : pure.arg[i] \in ReservedChars /\ pure.res[i] = "_"
  /\ Len(pure.res) < Len(pure.arg)

\* s holds a run of uppercase letters immediately followed by a run of digits
ContainsShape(s) ==
  \E a \in 1..Len(s), b \in 1..Len(s), c \in 1..Len(s) :
     /\ a <= b /\ b < c
     /\ \A t \in a..b : s[t] \in UpperLetters
     /\ \A t \in (b + 1)..c : s[t] \in Digits

\* C7: validate_course is true exactly of the strings that contain somewhere
\* a run of uppercase letters immediately followed by a run of digits.
C7_ValidatorContainment ==
  (pure.fn = "validate" /\ pure.done) => (pure.res <=> ContainsShape(pure.arg))

\* a string with other characters around its letter-digit run has passed
C7_Witness ==
  /\ pure.fn = "validate" /\ pure.done /\ pure.res = TRUE
  /\ Len(pure.arg) = 3
  /\ pure.arg[1] \notin UpperLetters \cup Digits

\* C8: the directory "new" resolves for a validated code has a base name that
\* starts with the code's literal text, then a whitespace character, then at
\* least one more character.
C8_ResolvedNameStartsWithCode ==
  (last.op = "new" /\ last.target # NoTarget) =>
     LET name == last.target[1]
         n == Len(CourseCode)
     IN  /\ Len(name) >= n + 2
         /\ SubSeq(name, 1, n) = CourseCode
         /\ name[n + 1] \in Whitespace

\* C9: a "new <code>" that directly follows a "course <code> <title>" which
\* reported Created does not fail and creates its note in a directory of the
\* working directory.
C9_CreatedFolderResolvable ==
  (last.op = "new" /\ last.afterCourse) =>
     /\ last.result.kind = "Ok"
     /\ last.target # NoTarget
     /\ last.target[1] \in DOMAIN root
     /\ NoteName(last.target[3], last.target[2]) \in DOMAIN root[last.target[1]].files

SameNote(p, q) == p # q /\ RaceName(p) = RaceName(q)

\* C10 as stated: of two overlapping make_new_note invocations on one file
\* name at most one reports Created, and File::create is never applied to a
\* file that exists at that moment.
C10_CreatedAtMostOnce ==
  /\ \A p \in Procs : ~race.clobbered[p]
  /\ \A p, q \in Procs :
       SameNote(p, q) => ~(race.out[p] = "Created" /\ race.out[q] = "Created")

\* C10 amended: unless both invocations passed their existence check before
\* either called File::create, at most one of them reports Created and
\* File::create is never applied to an existing file.
C10_CreatedOnceUnlessOverlapped ==
  ~race.overlapped =>
     /\ \A p \in Procs : ~race.clobbered[p]
     /\ \A p, q \in Procs :
          SameNote(p, q) => ~(race.out[p] = "Created" /\ race.out[q] = "Created")

\* one invocation created the note, it was written to, the other then found it
C10_Witness ==
  /\ ~race.overlapped
  /\ \E p, q \in Procs :
       /\ SameNote(p, q)
       /\ race.out[p] = "Created" /\ race.out[q] = "AlreadyExisted"
       /\ race.files[RaceName(p)] \in Contents

====
